---- MODULE Spec2Model ----
(***************************************************************************)
(* wrehub: the import commands of hub/management/commands and the store    *)
(* they write to.                                                          *)
(*                                                                         *)
(* One behaviour is a sequence of invocations of one import command on one *)
(* static export file, starting from the empty database.  Every invocation *)
(* draws its own command-line options.  The database is modelled as the    *)
(* parent table the command writes to (BuildingPermit, BuildingUsePermit   *)
(* or UrbanRenewalCase), keyed by the natural key, and one ordered child   *)
(* table (BuildingPermitAddress / BuildingUsePermitAddress); the other     *)
(* child tables of the XML importers are rebuilt by the same statements.   *)
(* `db' is what the command's connection sees, `committed' what every      *)
(* other connection sees: they differ only inside transaction.atomic().    *)
(***************************************************************************)
EXTENDS Integers, Sequences, FiniteSets, TLC

VARIABLES
  importer,   \* the command invoked (fixed in one behaviour)
  file,       \* the records of the static input file
  opts,       \* the options of the current invocation
  exists,     \* whether the path names a file at this invocation
  again,      \* this invocation repeats the previous command line
  pc,         \* position of the current invocation in handle()
  err,        \* the exception that ended the invocation, if any
  idx,        \* records consumed from the parser / reader
  stats,      \* Stats: processed, created, updated, skipped
  cur,        \* the record whose transaction is open
  db,         \* tables as seen by the command's connection
  committed,  \* tables as committed
  store0,     \* committed tables when the invocation started
  nwritten,   \* records committed by the current invocation
  held,       \* positions of the <Data> elements taken up and not cleared
  matcher,    \* match_wre_to_permits: its tables, options and loop
  runs,       \* two import processes at work on the same tables
  xlsx,       \* import_urban_renewal_xlsx: its sheet, tables and loop
  call        \* a helper function applied on its own: name, argument, result

vars == <<importer, file, opts, exists, again, pc, err, idx, stats,
          cur, db, committed, store0, nwritten, held, matcher, runs, xlsx,
          call>>

\* The variables that an import run of one process leaves alone.
aside == <<matcher, runs, xlsx>>

\* ---------------------------------------------------------------- bounds
MaxRecs == 2          \* records (<Data> elements, rows) in the input file
MaxItems == 2         \* item elements under one wrapper element
MaxTextLen == 2       \* characters in one item text
MaxLimit == 1         \* largest --limit drawn
MaxCols == 5          \* cells in one row of the raw CSV
MaxKids == 2          \* child elements of one <Data> element
MaxApprovals == 2     \* WreApproval rows
MaxPermits == 2       \* BuildingPermit rows
address_max_length == 1  \* width of the bounded child text column, scaled

\* ---------------------------------------------------------------- inputs
XmlImporters == {"import_permit_xml", "import_use_permit_xml"}
TabImporters == {"import_building_permits", "import_urban_renewal_raw_csv"}
Importers == XmlImporters \cup TabImporters

NoKey == ""
NonEmptyKeys == {"A", "B"}
Keys == {NoKey} \cup NonEmptyKeys

SeqsUpTo(S, n) == UNION {[1..m -> S] : m \in 0..n}

\* A text is its sequence of characters after whitespace clean-up: <<>> is
\* the blank text.
Texts == SeqsUpTo({"a"}, MaxTextLen)
ItemLists == SeqsUpTo(Texts, MaxItems)

\* An issue date that matches the date grammar and has month 13.
Month13 == <<"1", "1", "3", "/", "1", "3", "/", "0", "1">>

\* One <Data> element: the text of its key element, the item texts under
\* its wrapper element and the text of its issue date element.  A tabular
\* row has a key cell and no items.  The items of an element without a key
\* are never read, nor those of an element whose issue date is no date.
XmlRecords == {[key |-> NoKey, items |-> <<>>, issue_date |-> <<>>]}
                \cup [key : NonEmptyKeys, items : ItemLists, issue_date : {<<>>}]
                \cup [key : NonEmptyKeys, items : {<<>>}, issue_date : {Month13}]
TabRecords == [key : Keys, items : {<<>>}, issue_date : {<<>>}]
RecordsOf(imp) == IF imp \in XmlImporters THEN XmlRecords ELSE TabRecords
FilesOf(imp) == SeqsUpTo(RecordsOf(imp), MaxRecs)

NoOpts == [clear |-> FALSE, dry_run |-> FALSE, limit |-> 0,
           upsert |-> FALSE, show_keys |-> FALSE]

\* add_arguments of each command: the options it recognises.
OptionsOf(imp) ==
  CASE imp = "import_permit_xml" ->
         [clear : BOOLEAN, dry_run : BOOLEAN, limit : 0..MaxLimit,
          upsert : BOOLEAN, show_keys : BOOLEAN]
    [] imp = "import_use_permit_xml" ->
         [clear : BOOLEAN, dry_run : BOOLEAN, limit : 0..MaxLimit,
          upsert : BOOLEAN, show_keys : {FALSE}]
    [] imp = "import_urban_renewal_raw_csv" ->
         [clear : {FALSE}, dry_run : BOOLEAN, limit : 0..MaxLimit,
          upsert : {TRUE}, show_keys : {FALSE}]
    [] OTHER ->
         [clear : {FALSE}, dry_run : {FALSE}, limit : {0},
          upsert : {TRUE}, show_keys : {FALSE}]

\* ----------------------------------------------------------------- store
NoRow == [present |-> FALSE]

Row_ClipsRaw(rec) ==
  [present |-> TRUE,
   raw |-> [rec EXCEPT !.items =
              [i \in 1..Len(rec.items) |->
                 IF Len(rec.items[i]) > address_max_length
                 THEN SubSeq(rec.items[i], 1, address_max_length)
                 ELSE rec.items[i]]]]

\* The parent row: "raw" is the whole element (_element_to_dict), a
\* JSONField that clip_to_model passes through.
Row(rec) == [present |-> TRUE, raw |-> rec]

EmptyStore == [parent |-> [k \in NonEmptyKeys |-> NoRow],
               child  |-> [k \in NonEmptyKeys |-> <<>>]]

Stats == [processed |-> 0, created |-> 0, updated |-> 0, skipped |-> 0]

NoRec == [key |-> NoKey, items |-> <<>>, issue_date |-> <<>>]

NoOut == [kind |-> "None", y |-> 0, m |-> 0, d |-> 0]
NoCall == [fn |-> "none", arg |-> <<>>, out |-> NoOut]

\* The other commands, not invoked.
NoMatcher == [pc |-> "idle"]
NoRuns == [pc |-> "idle"]
NoXlsx == [pc |-> "idle"]

Init ==
  /\ importer \in Importers
  /\ file \in FilesOf(importer)
  /\ opts = NoOpts
  /\ exists = TRUE
  /\ again = FALSE
  /\ pc = "idle"
  /\ err = "none"
  /\ idx = 0
  /\ stats = Stats
  /\ cur = NoRec
  /\ db = EmptyStore
  /\ committed = EmptyStore
  /\ store0 = EmptyStore
  /\ nwritten = 0
  /\ held = {}
  /\ matcher = NoMatcher
  /\ runs = NoRuns
  /\ xlsx = NoXlsx
  /\ call = NoCall

\* --------------------------------------------------------------- strings
\* A string is the sequence of its characters.
DigitChars == <<"0", "1", "2", "3", "4", "5", "6", "7", "8", "9">>

IsDigit(c) == \E n \in 1..Len(DigitChars) : DigitChars[n] = c

\* str.isdigit(): not empty and every character a digit.
isdigit(s) == Len(s) > 0 /\ \A i \in 1..Len(s) : IsDigit(s[i])

DigitVal(c) == (CHOOSE n \in 1..Len(DigitChars) : DigitChars[n] = c) - 1

\* int() of a run of digits.
RECURSIVE int(_)
int(s) ==
  IF s = <<>> THEN 0
  ELSE int(SubSeq(s, 1, Len(s) - 1)) * 10 + DigitVal(s[Len(s)])

RECURSIVE lstrip(_)
lstrip(s) == IF s # <<>> /\ s[1] = " " THEN lstrip(Tail(s)) ELSE s

RECURSIVE rstrip(_)
rstrip(s) ==
  IF s # <<>> /\ s[Len(s)] = " " THEN rstrip(SubSeq(s, 1, Len(s) - 1)) ELSE s

\* str.strip()
strip(s) == rstrip(lstrip(s))

RECURSIVE squeeze(_)
squeeze(s) ==
  IF Len(s) < 2 THEN s
  ELSE IF s[1] = " " /\ s[2] = " " THEN squeeze(Tail(s))
  ELSE <<s[1]>> \o squeeze(Tail(s))

\* clean_ws: re.sub(r"\s+", " ", s).strip()
clean_ws(s) == strip(squeeze(s))

\* str.replace(a, b) for single characters a and b.
replace(s, a, b) == [i \in 1..Len(s) |-> IF s[i] = a THEN b ELSE s[i]]

\* str.split(c)
RECURSIVE split(_, _)
split(s, c) ==
  IF \A i \in 1..Len(s) : s[i] # c THEN <<s>>
  ELSE LET i == CHOOSE j \in 1..Len(s) :
                  s[j] = c /\ \A h \in 1..(j - 1) : s[h] # c
       IN <<SubSeq(s, 1, i - 1)>> \o split(SubSeq(s, i + 1, Len(s)), c)

\* ----------------------------------------------------------------- dates
IsLeap(y) == y % 4 = 0 /\ (y % 100 # 0 \/ y % 400 = 0)

DaysIn(y, m) ==
  CASE m \in {4, 6, 9, 11} -> 30
    [] m = 2 -> IF IsLeap(y) THEN 29 ELSE 28
    [] OTHER -> 31

\* datetime.date(y, m, d): the date, or ValueError when it is not one.
date(y, m, d) ==
  IF y \in 1..9999 /\ m \in 1..12 /\ d \in 1..DaysIn(y, m)
  THEN [kind |-> "date", y |-> y, m |-> m, d |-> d]
  ELSE [kind |-> "ValueError", y |-> 0, m |-> 0, d |-> 0]

\* ^(\d{2,3})/(\d{1,2})/(\d{1,2})$
MatchesSlashForm(s) ==
  LET p == split(s, "/") IN
  /\ Len(p) = 3
  /\ isdigit(p[1]) /\ Len(p[1]) \in 2..3
  /\ isdigit(p[2]) /\ Len(p[2]) \in 1..2
  /\ isdigit(p[3]) /\ Len(p[3]) \in 1..2

\* ^(\d{2,3})(\d{2})(\d{2})$
MatchesRunForm(s) == isdigit(s) /\ Len(s) \in 6..7

roc_epoch == 1911

\* hub.utils.parse_roc_date: date() is called outside any try.
parse_roc_date(text) ==
  LET s == replace(clean_ws(text), "-", "/")
      p == split(s, "/")
      n == Len(s)
  IN IF s = <<>> THEN NoOut
     ELSE IF MatchesSlashForm(s)
     THEN date(int(p[1]) + roc_epoch, int(p[2]), int(p[3]))
     ELSE IF MatchesRunForm(s)
     THEN date(int(SubSeq(s, 1, n - 4)) + roc_epoch,
               int(SubSeq(s, n - 3, n - 2)), int(SubSeq(s, n - 1, n)))
     ELSE NoOut

\* parse_roc_date of import_urban_renewal_raw_csv: the slash form only,
\* date() inside try / except Exception.
raw_csv_parse_roc_date(text) ==
  LET s == strip(text)
      p == split(s, "/")
  IN IF s = <<>> THEN NoOut
     ELSE IF ~MatchesSlashForm(s) THEN NoOut
     ELSE LET r == date(int(p[1]) + roc_epoch, int(p[2]), int(p[3]))
          IN IF r.kind = "ValueError" THEN NoOut ELSE r

\* ------------------------------------------------------ land descriptors
\* Characters that are not ASCII are written as words: "duan" is the
\* section suffix, "xiao" "duan" the sub-section suffix, "di" "duan" the
\* section label, "yi" and "er" the numerals one and two.
FirstOf(S) == CHOOSE i \in S : \A j \in S : i <= j

StartsAt(s, j, x) ==
  j + Len(x) - 1 <= Len(s) /\ SubSeq(s, j, j + Len(x) - 1) = x

NonSep(c) == c \notin {" ", ","}

\* re.search(r"([^\s,]+?X)", s) for a literal X: the match, or <<>>.
search_run_before(s, x) ==
  LET ends(i) == {j \in (i + 1)..Len(s) :
                    /\ StartsAt(s, j, x)
                    /\ \A h \in i..(j - 1) : NonSep(s[h])}
      starts == {i \in 1..Len(s) : ends(i) # {}}
  IN IF starts = {} THEN <<>>
     ELSE LET i == FirstOf(starts)
              j == FirstOf(ends(i))
          IN SubSeq(s, i, j + Len(x) - 1)

\* The end of the longest run of positions in the set at that starts at i.
RunEnd(s, i, at) ==
  FirstOf({j \in i..Len(s) : j = Len(s) \/ (j + 1) \notin at})

DigitsAt(s) == {h \in 1..Len(s) : IsDigit(s[h])}
NonSepAt(s) == {h \in 1..Len(s) : NonSep(s[h])}

\* re.search(r"L[::]\s*([^\s,]+)", s) for a literal label L: group 1.
search_after_label(s, l) ==
  LET from(j) == IF j + Len(l) + 1 <= Len(s) /\ s[j + Len(l) + 1] = " "
                 THEN j + Len(l) + 2 ELSE j + Len(l) + 1
      hits == {j \in 1..Len(s) :
                 /\ StartsAt(s, j, l)
                 /\ j + Len(l) <= Len(s)
                 /\ s[j + Len(l)] \in {":", "fullwidth_colon"}
                 /\ from(j) <= Len(s)
                 /\ NonSep(s[from(j)])}
  IN IF hits = {} THEN <<>>
     ELSE LET j == FirstOf(hits)
          IN SubSeq(s, from(j), RunEnd(s, from(j), NonSepAt(s)))

\* re.sub(r"[((].*?[))]", " ", s)
RECURSIVE drop_brackets(_)
drop_brackets(s) ==
  LET opens == {i \in 1..Len(s) :
                  /\ s[i] = "("
                  /\ \E j \in (i + 1)..Len(s) : s[j] = ")"}
  IN IF opens = {} THEN s
     ELSE LET i == FirstOf(opens)
              j == FirstOf({h \in (i + 1)..Len(s) : s[h] = ")"})
          IN SubSeq(s, 1, i - 1) \o <<" ">>
               \o drop_brackets(SubSeq(s, j + 1, Len(s)))

\* re.findall(r"\d+(?:-\d+)?", s)[0], or <<>> when there is none.
first_number(s) ==
  LET ds == {i \in 1..Len(s) : IsDigit(s[i])}
  IN IF ds = {} THEN <<>>
     ELSE LET i == FirstOf(ds)
              j == RunEnd(s, i, DigitsAt(s))
          IN IF j + 2 <= Len(s) /\ s[j + 1] = "-" /\ IsDigit(s[j + 2])
             THEN SubSeq(s, i, RunEnd(s, j + 2, DigitsAt(s)))
             ELSE SubSeq(s, i, j)

\* str() of a natural number.
RECURSIVE str(_)
str(n) ==
  IF n < 10 THEN <<DigitChars[n + 1]>>
  ELSE str(n \div 10) \o <<DigitChars[(n % 10) + 1]>>

parcel_pad == 4

\* f"{b:04d}"
RECURSIVE zero_pad(_)
zero_pad(d) == IF Len(d) >= parcel_pad THEN d ELSE zero_pad(<<"0">> \o d)

\* hub.utils.norm_parcel_no
norm_parcel_no(text) ==
  LET s == replace(clean_ws(text), "fullwidth_dash", "-")
      p == split(s, "-")
  IN IF s = <<>> THEN <<>>
     ELSE IF Len(p) = 1 /\ isdigit(p[1])
     THEN str(int(p[1])) \o <<"-">> \o zero_pad(str(0))
     ELSE IF Len(p) = 2 /\ isdigit(p[1]) /\ isdigit(p[2])
     THEN str(int(p[1])) \o <<"-">> \o zero_pad(str(int(p[2])))
     ELSE s

\* hub.utils.parse_land_text
parse_land_text(land_text) ==
  LET t0 == clean_ws(land_text)
      t1 == replace(replace(t0, "fullwidth_comma", ","),
                    "ideographic_comma", ",")
      t == clean_ws(drop_brackets(t1))
      secA == search_run_before(t, <<"duan">>)
      subA == search_run_before(t, <<"xiao", "duan">>)
      sec == IF secA # <<>> THEN secA
             ELSE search_after_label(t, <<"di", "duan">>)
      sub == IF subA # <<>> THEN subA
             ELSE search_after_label(t, <<"xiao", "duan">>)
      n == first_number(t)
  IN IF t0 = <<>> THEN [sec |-> <<>>, sub |-> <<>>, parcel |-> <<>>]
     ELSE [sec |-> sec, sub |-> sub,
           parcel |-> IF n = <<>> THEN <<>> ELSE norm_parcel_no(n)]

\* [一二三四五六七八九十\d]
IsNumeral(c) == c \in {"yi", "er"} \/ IsDigit(c)

NumeralsAt(s) == {h \in 1..Len(s) : IsNumeral(s[h])}

\* parse_parcel of import_urban_renewal_xlsx
parse_parcel(parcel_text) ==
  LET s == strip(parcel_text)
      secs == {j \in 2..Len(s) : s[j] = "duan"}
      subs == {i \in 1..Len(s) :
                 /\ IsNumeral(s[i])
                 /\ StartsAt(s, RunEnd(s, i, NumeralsAt(s)) + 1, <<"xiao", "duan">>)}
      ds == {i \in 1..Len(s) : IsDigit(s[i])}
  IN IF parcel_text = <<>> THEN [sec |-> <<>>, sub |-> <<>>, parcel |-> <<>>]
     ELSE [sec |-> IF secs = {} THEN <<>> ELSE SubSeq(s, 1, FirstOf(secs)),
           sub |-> IF subs = {} THEN <<>>
                   ELSE SubSeq(s, FirstOf(subs),
                               RunEnd(s, FirstOf(subs), NumeralsAt(s)) + 2),
           parcel |-> IF ds = {} THEN <<>>
                      ELSE SubSeq(s, FirstOf(ds), RunEnd(s, FirstOf(ds), DigitsAt(s)))]

\* --------------------------------------------------------------- numbers
\* A Decimal: sign, digits as a number, digits after the point.
NoNum == [kind |-> "None", neg |-> FALSE, digits |-> 0, exp |-> 0]
Raised == [kind |-> "InvalidOperation", neg |-> FALSE, digits |-> 0, exp |-> 0]

\* decimal.Decimal(s): sign, digits, an optional point; surrounding
\* whitespace is ignored.
Decimal(text) ==
  LET u == strip(text)
      signed == u # <<>> /\ u[1] \in {"-", "+"}
      body == IF signed THEN Tail(u) ELSE u
      p == split(body, ".")
      DigitsOrNone(x) == x = <<>> \/ isdigit(x)
  IN IF Len(p) = 1 /\ isdigit(p[1])
     THEN [kind |-> "Decimal", neg |-> signed /\ u[1] = "-",
           digits |-> int(p[1]), exp |-> 0]
     ELSE IF /\ Len(p) = 2 /\ DigitsOrNone(p[1]) /\ DigitsOrNone(p[2])
             /\ p[1] \o p[2] # <<>>
     THEN [kind |-> "Decimal", neg |-> signed /\ u[1] = "-",
           digits |-> int(p[1] \o p[2]), exp |-> Len(p[2])]
     ELSE Raised

\* "return Decimal(v)" inside try / except Exception: return None
DecimalOrNone(s) == IF Decimal(s).kind = "Decimal" THEN Decimal(s) ELSE NoNum

\* to_decimal of import_permit_xml
to_decimal(v) ==
  IF clean_ws(v) = <<>> THEN NoNum ELSE DecimalOrNone(clean_ws(v))

RECURSIVE Pow10(_)
Pow10(n) == IF n = 0 THEN 1 ELSE 10 * Pow10(n - 1)

\* to_int of import_permit_xml: int(Decimal(v)) truncates.
to_int(v) ==
  LET r == to_decimal(v)
  IN IF r.kind = "Decimal"
     THEN [r EXCEPT !.digits = r.digits \div Pow10(r.exp), !.exp = 0]
     ELSE r

Glyphs == {",", "sqm", "fullwidth_percent", "%"}

\* s.replace(",", "").replace(<square metre>, "").replace(<percent>, "")
remove_glyphs(s) == SelectSeq(s, LAMBDA c : c \notin Glyphs)

\* to_decimal of import_urban_renewal_raw_csv
raw_csv_to_decimal(text) ==
  IF strip(text) = <<>> THEN NoNum
  ELSE DecimalOrNone(remove_glyphs(strip(text)))

\* _DEC_RE.search(s): [-+]?\d+(?:\.\d+)?, the match or <<>>.
search_dec(s) ==
  LET Starts(i) == \/ IsDigit(s[i])
                   \/ /\ s[i] \in {"-", "+"}
                      /\ i < Len(s) /\ IsDigit(s[i + 1])
      hits == {i \in 1..Len(s) : Starts(i)}
  IN IF hits = {} THEN <<>>
     ELSE LET i == FirstOf(hits)
              d == IF IsDigit(s[i]) THEN i ELSE i + 1
              j == RunEnd(s, d, DigitsAt(s))
          IN IF j + 2 <= Len(s) /\ s[j + 1] = "." /\ IsDigit(s[j + 2])
             THEN SubSeq(s, i, RunEnd(s, j + 2, DigitsAt(s)))
             ELSE SubSeq(s, i, j)

\* hub.models_use_permit.parse_decimal_maybe
parse_decimal_maybe(text) ==
  IF text = <<>> THEN NoNum
  ELSE IF search_dec(strip(text)) = <<>> THEN NoNum
  ELSE DecimalOrNone(search_dec(strip(text)))

\* ------------------------------------------------------- realigned rows
min(a, b) == IF a < b THEN a ELSE b

\* str.isdigit() is also true of digit characters that int() and Decimal()
\* refuse, such as the superscript two.
str_isdigit(s) ==
  Len(s) > 0 /\ \A i \in 1..Len(s) : IsDigit(s[i]) \/ s[i] = "superscript_two"

\* is_int of import_urban_renewal_raw_csv
is_int(s) == str_isdigit(strip(s))

\* s.replace(".", "", 1)
remove_first_dot(s) ==
  LET ds == {i \in 1..Len(s) : s[i] = "."}
  IN IF ds = {} THEN s
     ELSE SubSeq(s, 1, FirstOf(ds) - 1) \o SubSeq(s, FirstOf(ds) + 1, Len(s))

\* str.split(): the words between runs of whitespace.
words(s) == SelectSeq(split(clean_ws(s), " "), LAMBDA w : w # <<>>)

RECURSIVE concat(_)
concat(ws) == IF ws = <<>> THEN <<>> ELSE Head(ws) \o concat(Tail(ws))

\* " ".join(c for c in cells if c)
RECURSIVE join_all(_)
join_all(cells) ==
  IF cells = <<>> THEN <<>>
  ELSE IF Tail(cells) = <<>> THEN Head(cells)
  ELSE Head(cells) \o <<" ">> \o join_all(Tail(cells))

RECURSIVE join_nonempty(_)
join_nonempty(cells) ==
  IF cells = <<>> THEN <<>>
  ELSE LET rest == join_nonempty(Tail(cells))
       IN IF Head(cells) = <<>> THEN rest
          ELSE IF rest = <<>> THEN Head(cells)
          ELSE Head(cells) \o <<" ">> \o rest

ping_sqm_millionths == 3305785
date_scan_end == 12
note_max_len == 12

ping_places == 8

\* Long division: k more decimal places of the quotient q, remainder r.
RECURSIVE div_places(_, _, _, _)
div_places(q, r, d, k) ==
  IF k = 0 THEN [q |-> q, r |-> r]
  ELSE div_places(q * 10 + ((r * 10) \div d), (r * 10) % d, d, k - 1)

\* (site_area_sqm / PING_SQM).quantize(Decimal("0.01")), half to even.
site_ping(area) ==
  LET d == ping_sqm_millionths
      x == div_places(area.digits \div d, area.digits % d, d,
                      ping_places - area.exp)
      up == 2 * x.r > d \/ (2 * x.r = d /\ x.q % 2 = 1)
  IN [kind |-> "Decimal", neg |-> FALSE,
      digits |-> IF up THEN x.q + 1 ELSE x.q, exp |-> 2]

NotARecord == [kind |-> "None"]

total_bonus_cell_Last(cols) == cols[Len(cols)]

\* cols[-4]
total_bonus_cell(cols) == cols[Len(cols) - 3]

\* extract_case_row of import_urban_renewal_raw_csv
extract_case_row(row) ==
  LET cols == [i \in 1..Len(row) |-> strip(row[i])]
      n == Len(cols)
      IsDate(x) == raw_csv_parse_roc_date(x).kind = "date"
      dates == {i \in 3..min(n, date_scan_end) : IsDate(cols[i])}
      found == dates # {}
      date_idx == IF found THEN FirstOf(dates) ELSE 0
      parts == IF n >= 2 THEN words(cols[2]) ELSE <<>>
      sized == parts # <<>> /\ str_isdigit(remove_first_dot(parts[1]))
      site_area_sqm == IF sized THEN raw_csv_to_decimal(parts[1]) ELSE NoNum
      district == IF parts = <<>> THEN <<>>
                  ELSE IF sized THEN strip(concat(Tail(parts)))
                  ELSE strip(cols[2])
      mid == IF found THEN SubSeq(cols, 3, date_idx - 1)
             ELSE SubSeq(cols, 3, min(n, 6))
      notes == {i \in (date_idx + 1)..min(n, date_idx + 3) :
                  /\ cols[i] # <<>>
                  /\ ~str_isdigit(remove_first_dot(cols[i]))
                  /\ ~IsDate(cols[i])
                  /\ Len(cols[i]) <= note_max_len}
  IN IF n = 0 \/ ~is_int(cols[1]) THEN NotARecord
     ELSE IF ~isdigit(cols[1]) THEN [kind |-> "ValueError"]
     ELSE [kind |-> "record",
           case_no |-> int(cols[1]),
           district |-> district,
           approved_date |-> IF found THEN raw_csv_parse_roc_date(cols[date_idx])
                             ELSE NoOut,
           site_area_sqm |-> site_area_sqm,
           site_area_ping |-> IF site_area_sqm.kind = "Decimal"
                              THEN site_ping(site_area_sqm) ELSE NoNum,
           address |-> strip(join_nonempty(mid)),
           land_text |-> <<>>,
           note |-> IF found /\ notes # {} THEN cols[FirstOf(notes)] ELSE <<>>,
           total_bonus_pct |-> IF n >= 4
                               THEN raw_csv_to_decimal(total_bonus_cell(cols))
                               ELSE NoNum,
           raw_cols |-> cols]

\* ---------------------------------------------------------- XML elements
\* An element: its tag, its text and its child elements.  "key" stands for
\* a scalar field's tag, "loc" for a wrapper's tag, "addr" for its item tag.
NoneEl == [tag |-> "None", text |-> <<>>, kids |-> <<>>]

\* _txt of import_permit_xml
_txt(el) == IF el = NoneEl THEN <<>> ELSE clean_ws(el.text)

_child_Last(parent, tag) ==
  LET at == {i \in 1..Len(parent.kids) : parent.kids[i].tag = tag}
  IN IF at = {} THEN NoneEl
     ELSE parent.kids[CHOOSE i \in at : \A j \in at : j <= i]

\* _child: the first child with the tag, or None.
_child(parent, tag) ==
  LET at == {i \in 1..Len(parent.kids) : parent.kids[i].tag = tag}
  IN IF at = {} THEN NoneEl
     ELSE parent.kids[CHOOSE i \in at : \A j \in at : i <= j]

\* _children: every child with the tag, in document order.
_children(parent, tag) == SelectSeq(parent.kids, LAMBDA c : c.tag = tag)

\* The collection of one repeated list in handle(): the wrapper, then
\* "for a in _children(loc, item): t = _txt(a); if t: append(t)".
collect(elem, wrapper, item) ==
  LET loc == _child(elem, wrapper)
      cs == _children(loc, item)
  IN IF loc = NoneEl THEN <<>>
     ELSE SelectSeq([i \in 1..Len(cs) |-> _txt(cs[i])], LAMBDA t : t # <<>>)

\* ------------------------------------------------------------ extraction
addresses_KeepsBlanks(items) == items

\* The collection loop over _children(wrapper, item tag): the texts that
\* are not blank, in document order.
addresses(items) == SelectSeq(items, LAMBDA t : t # <<>>)

clip_to_model_OffByOne(max_length, s) ==
  IF Len(s) > max_length THEN SubSeq(s, 1, max_length + 1) ELSE s

\* clip_to_model on one CharField value: cut to the column's max_length.
clip_to_model(max_length, s) ==
  IF Len(s) > max_length THEN SubSeq(s, 1, max_length) ELSE s

\* A field mapping passed to clip_to_model: every name is absent from the
\* mapping, None, or a text.
Absent == [kind |-> "absent", s |-> <<>>]
Null == [kind |-> "None", s |-> <<>>]
Str(t) == [kind |-> "str", s |-> t]

\* The fields of the model class: two CharFields with their max_length
\* (scaled) and a TextField.
FieldNames == {"permit_year", "designer", "notes"}
max_length_of == [permit_year |-> address_max_length,
                  designer    |-> address_max_length + 1]
IsCharField(f) == f \in DOMAIN max_length_of

\* clip_to_model(model_cls, data): the loop over model_cls._meta.get_fields().
clip_to_model_data(data) ==
  [f \in FieldNames |->
     IF IsCharField(f) /\ data[f].kind = "str"
     THEN Str(clip_to_model(max_length_of[f], data[f].s))
     ELSE data[f]]

\* The child objects built for bulk_create: seq = i + 1 over enumerate().
\* import_permit_xml clips address_text, import_use_permit_xml does not.
address_objs(imp, items) ==
  LET ts == addresses(items) IN
  [i \in 1..Len(ts) |->
     [seq  |-> i,
      text |-> IF imp = "import_permit_xml"
               THEN clip_to_model(address_max_length, ts[i])
               ELSE ts[i]]]

\* ------------------------------------------------------------ statements
\* varchar(max_length): the store refuses a longer value (DataError).
Accepts(rows) == \A i \in 1..Len(rows) : Len(rows[i].text) <= address_max_length

Clear_ParentsOnly(st) == [st EXCEPT !.parent = [k \in NonEmptyKeys |-> NoRow]]

\* Model.objects.all().delete(): every parent row, children by CASCADE.
Clear(st) == [parent |-> [k \in NonEmptyKeys |-> NoRow],
              child  |-> [k \in NonEmptyKeys |-> <<>>]]

ClearWanted_IgnoresDryRun(o) == o.clear

\* "if clear and not dry_run"
ClearWanted(o) == o.clear /\ ~o.dry_run

update_or_create_AlwaysCreated(st, rec) ==
  [ok |-> TRUE,
   st |-> [st EXCEPT !.parent[rec.key] = Row(rec)],
   created |-> TRUE]

\* update_or_create / get_or_create + save on the natural key.
update_or_create(st, rec) ==
  [ok |-> TRUE,
   st |-> [st EXCEPT !.parent[rec.key] = Row(rec)],
   created |-> ~st.parent[rec.key].present]

create_Overwrites(st, rec) == update_or_create(st, rec)

\* objects.create(): the unique natural key refuses a second row.
create(st, rec) ==
  IF st.parent[rec.key].present
  THEN [ok |-> FALSE, st |-> st, created |-> FALSE]
  ELSE [ok |-> TRUE,
        st |-> [st EXCEPT !.parent[rec.key] = Row(rec)],
        created |-> TRUE]

WriteParent(st, rec, upsert) ==
  IF upsert THEN update_or_create(st, rec) ELSE create(st, rec)

DeleteChildren_Skipped(st, k) == st

DeleteChildren_Everyones(st, k) ==
  [st EXCEPT !.child = [j \in NonEmptyKeys |-> <<>>]]

\* obj.addresses.all().delete()
DeleteChildren(st, k) == [st EXCEPT !.child[k] = <<>>]

\* Child.objects.bulk_create(rows)
bulk_create(st, k, rows) == [st EXCEPT !.child[k] = @ \o rows]

InBlock_Autocommit(c, d) == d

\* with transaction.atomic(): what is committed while the block is open,
\* given the committed tables c and the connection's tables d.
InBlock(c, d) == c

\* "limit and stats.processed > limit", after the increment.
OverLimit(o, processed) == o.limit # 0 /\ processed > o.limit

Bump(st, f) == [st EXCEPT ![f] = @ + 1]

Release_Kept(h, i) == h

\* elem.clear() after the transaction block
Release(h, i) == h \ {i}

\* "for event, elem in context": the loop takes up the next <Data> element.
Take(h, i) == h \cup {i}

\* issue_date = parse_roc_date(...) of import_permit_xml raises;
\* import_use_permit_xml stores the text of the date as it is.
DateRaises(imp, rec) ==
  /\ imp = "import_permit_xml"
  /\ parse_roc_date(rec.issue_date).kind = "ValueError"

\* --------------------------------------------------------------- actions
Ended == pc \in {"done", "returned", "aborted"}

\* The operator runs the command: manage.py <importer> --file F <options>.
Invoke ==
  /\ pc = "idle"
  /\ \E o \in OptionsOf(importer), e \in BOOLEAN :
       /\ opts' = o
       /\ exists' = e
  /\ again' = FALSE
  /\ pc' = "start"
  /\ store0' = committed
  /\ UNCHANGED <<call, aside, held, importer, file, err, idx, stats, cur, db, committed,
                 nwritten>>

\* The operator runs the same command line once more.
Reinvoke ==
  /\ Ended
  /\ again' = TRUE
  /\ pc' = "start"
  /\ err' = "none"
  /\ idx' = 0
  /\ stats' = Stats
  /\ cur' = NoRec
  /\ store0' = committed
  /\ nwritten' = 0
  /\ held' = {}
  /\ UNCHANGED <<call, aside, importer, file, opts, exists, db, committed>>

\* The process is gone: its options and counters with it.
Exit ==
  /\ Ended
  /\ pc' = "idle"
  /\ opts' = NoOpts
  /\ exists' = TRUE
  /\ again' = FALSE
  /\ err' = "none"
  /\ idx' = 0
  /\ stats' = Stats
  /\ cur' = NoRec
  /\ store0' = committed
  /\ nwritten' = 0
  /\ held' = {}
  /\ UNCHANGED <<call, aside, importer, file, db, committed>>

\* handle() of the XML importers up to the loop: the clear, then iterparse
\* opens the file.
XmlBegin ==
  /\ pc = "start"
  /\ importer \in XmlImporters
  /\ LET st == IF ClearWanted(opts) THEN Clear(db) ELSE db IN
       /\ db' = st
       /\ committed' = st
  /\ IF ~exists
     THEN pc' = "aborted" /\ err' = "FileNotFoundError"
     ELSE pc' = (IF opts.show_keys THEN "show_keys" ELSE "loop") /\ err' = err
  /\ UNCHANGED <<call, aside, held, importer, file, opts, exists, again, idx, stats, cur,
                 store0, nwritten>>

\* --show-keys: count the tags of the first elements, print, return.
ShowKeys ==
  /\ pc = "show_keys"
  /\ idx' = Len(file)
  /\ pc' = "returned"
  /\ UNCHANGED <<call, aside, held, importer, file, opts, exists, again, err, stats, cur,
                 db, committed, store0, nwritten>>

\* The loop is exhausted: the summary line is written.
Summary ==
  /\ pc = "loop"
  /\ idx = Len(file)
  /\ pc' = "done"
  /\ UNCHANGED <<call, aside, held, importer, file, opts, exists, again, err, idx, stats,
                 cur, db, committed, store0, nwritten>>

\* The limit is exceeded: the element is cleared and the loop is left.
XmlLimit ==
  /\ pc = "loop" /\ importer \in XmlImporters /\ idx < Len(file)
  /\ OverLimit(opts, stats.processed + 1)
  /\ stats' = Bump(stats, "processed")
  /\ idx' = idx + 1
  /\ pc' = "done"
  /\ UNCHANGED <<call, aside, held, importer, file, opts, exists, again, err, cur, db,
                 committed, store0, nwritten>>

\* The element has no natural key.
XmlSkip ==
  /\ pc = "loop" /\ importer \in XmlImporters /\ idx < Len(file)
  /\ ~OverLimit(opts, stats.processed + 1)
  /\ file[idx + 1].key = NoKey
  /\ stats' = Bump(Bump(stats, "processed"), "skipped")
  /\ idx' = idx + 1
  /\ UNCHANGED <<call, aside, held, importer, file, opts, exists, again, pc, err, cur, db,
                 committed, store0, nwritten>>

\* import_permit_xml: parse_roc_date raises on the issue date and the
\* exception leaves handle().
XmlDateError ==
  /\ pc = "loop" /\ importer \in XmlImporters /\ idx < Len(file)
  /\ ~OverLimit(opts, stats.processed + 1)
  /\ file[idx + 1].key # NoKey
  /\ DateRaises(importer, file[idx + 1])
  /\ stats' = Bump(stats, "processed")
  /\ idx' = idx + 1
  /\ pc' = "aborted"
  /\ err' = "ValueError"
  /\ held' = Take(held, idx + 1)
  /\ UNCHANGED <<call, aside, importer, file, opts, exists, again, cur, db,
                 committed, store0, nwritten>>

\* --dry-run: the element is counted as created and nothing is written.
XmlDryRun ==
  /\ pc = "loop" /\ importer \in XmlImporters /\ idx < Len(file)
  /\ ~OverLimit(opts, stats.processed + 1)
  /\ file[idx + 1].key # NoKey
  /\ ~DateRaises(importer, file[idx + 1])
  /\ opts.dry_run
  /\ stats' = Bump(Bump(stats, "processed"), "created")
  /\ idx' = idx + 1
  /\ UNCHANGED <<call, aside, held, importer, file, opts, exists, again, pc, err, cur, db,
                 committed, store0, nwritten>>

\* transaction.atomic() is entered and the parent row is written.  An
\* exception leaves the block (rollback) and handle().
XmlParent ==
  /\ pc = "loop" /\ importer \in XmlImporters /\ idx < Len(file)
  /\ ~OverLimit(opts, stats.processed + 1)
  /\ file[idx + 1].key # NoKey
  /\ ~DateRaises(importer, file[idx + 1])
  /\ ~opts.dry_run
  /\ LET rec == file[idx + 1]
         r == WriteParent(db, rec, opts.upsert)
     IN IF r.ok
        THEN /\ db' = r.st
             /\ stats' = Bump(Bump(stats, "processed"),
                              IF r.created THEN "created" ELSE "updated")
             /\ cur' = rec
             /\ pc' = "tx"
             /\ err' = err
        ELSE /\ db' = committed
             /\ stats' = Bump(stats, "processed")
             /\ cur' = cur
             /\ pc' = "aborted"
             /\ err' = "IntegrityError"
  /\ committed' = InBlock(committed, db')
  /\ idx' = idx + 1
  /\ held' = Take(held, idx + 1)
  /\ UNCHANGED <<call, aside, importer, file, opts, exists, again, store0, nwritten>>

\* Still inside the block: the children are deleted and rebuilt, and the
\* block commits.  An exception rolls the whole block back.
XmlChildren ==
  /\ pc = "tx"
  /\ LET rows == address_objs(importer, cur.items)
         st == bulk_create(DeleteChildren(db, cur.key), cur.key, rows)
     IN IF Accepts(rows)
        THEN /\ db' = st
             /\ committed' = st
             /\ nwritten' = nwritten + 1
             /\ pc' = "loop"
             /\ err' = err
        ELSE /\ db' = committed
             /\ committed' = committed
             /\ nwritten' = nwritten
             /\ pc' = "aborted"
             /\ err' = "DataError"
  /\ cur' = NoRec
  /\ held' = (IF Accepts(address_objs(importer, cur.items))
              THEN Release(held, idx) ELSE held)
  /\ UNCHANGED <<call, aside, importer, file, opts, exists, again, idx, stats,
                 store0>>

\* handle() of the tabular importers up to the loop: the path is checked.
TabBegin ==
  /\ pc = "start"
  /\ importer \in TabImporters
  /\ IF ~exists
     THEN pc' = "aborted" /\ err' = "CommandError"
     ELSE pc' = "loop" /\ err' = err
  /\ UNCHANGED <<call, aside, held, importer, file, opts, exists, again, idx, stats, cur,
                 db, committed, store0, nwritten>>

\* import_building_permits: one row of the DictReader.
CsvRow ==
  /\ pc = "loop" /\ importer = "import_building_permits" /\ idx < Len(file)
  /\ LET rec == file[idx + 1]
         r == update_or_create(db, rec)
     IN IF rec.key = NoKey
        THEN UNCHANGED <<stats, db, committed, nwritten>>
        ELSE /\ db' = r.st
             /\ committed' = r.st
             /\ stats' = Bump(stats, IF r.created THEN "created" ELSE "updated")
             /\ nwritten' = nwritten + 1
  /\ idx' = idx + 1
  /\ UNCHANGED <<call, aside, held, importer, file, opts, exists, again, pc, err, cur,
                 store0>>

\* import_urban_renewal_raw_csv: one row of the reader.
RawRow ==
  /\ pc = "loop" /\ importer = "import_urban_renewal_raw_csv"
  /\ idx < Len(file)
  /\ LET rec == file[idx + 1]
         r == update_or_create(db, rec)
     IN IF rec.key = NoKey
        THEN UNCHANGED <<stats, db, committed, nwritten, pc>>
        ELSE IF OverLimit(opts, stats.processed + 1)
        THEN /\ stats' = Bump(stats, "processed")
             /\ pc' = "done"
             /\ UNCHANGED <<db, committed, nwritten>>
        ELSE IF opts.dry_run
        THEN /\ stats' = Bump(stats, "processed")
             /\ UNCHANGED <<db, committed, nwritten, pc>>
        ELSE /\ db' = r.st
             /\ committed' = r.st
             /\ stats' = Bump(Bump(stats, "processed"),
                              IF r.created THEN "created" ELSE "updated")
             /\ nwritten' = nwritten + 1
             /\ pc' = pc
  /\ idx' = idx + 1
  /\ UNCHANGED <<call, aside, held, importer, file, opts, exists, again, err, cur, store0>>

\* ------------------------------------------------- functions on their own
\* The variables of an import run, at rest while a helper is applied.
run == <<importer, file, opts, exists, again, pc, err, idx, stats,
         cur, db, committed, store0, nwritten, held>>

NoImport ==
  /\ importer = "import_permit_xml"
  /\ file = <<>>
  /\ opts = NoOpts
  /\ exists = TRUE
  /\ again = FALSE
  /\ pc = "idle"
  /\ err = "none"
  /\ idx = 0
  /\ stats = Stats
  /\ cur = NoRec
  /\ db = EmptyStore
  /\ committed = EmptyStore
  /\ store0 = EmptyStore
  /\ nwritten = 0
  /\ held = {}

AtRest ==
  /\ NoImport
  /\ matcher = NoMatcher
  /\ runs = NoRuns
  /\ xlsx = NoXlsx

\* Date cells: year, month and day parts joined by "/" or "-", runs of
\* digits, and cells that are no date.
DateYears == {<<"8">>, <<"9", "9">>, <<"1", "0", "9">>, <<"1", "0", "9", "0">>}
DateMonths == {<<"0">>, <<"2">>, <<"0", "2">>, <<"1", "2">>, <<"1", "3">>, <<"x">>}
DateDays == {<<"0">>, <<"1">>, <<"2", "9">>, <<"3", "0">>, <<"3", "1">>, <<"3", "2">>}
DateSeps == {"/", "-"}
RunMonths == {<<"0", "0">>, <<"0", "2">>, <<"1", "2">>, <<"1", "3">>}
RunDays == {<<"0", "0">>, <<"0", "1">>, <<"2", "9">>, <<"3", "0">>, <<"3", "2">>}
SlashDates == {y \o <<c>> \o m \o <<c>> \o d :
                 y \in DateYears, m \in DateMonths, d \in DateDays,
                 c \in DateSeps}
RunDates == {y \o m \o d : y \in DateYears, m \in RunMonths, d \in RunDays}
OtherDates == {<<>>, <<" ">>, <<"x">>, <<" ", "1", "0", "9", "/", "2", "/", "2", "9", " ">>, <<"1", "0", "9", "/", "2">>, <<"1", "0", "9", "/", "2", "/", "2", "9", "/", "1">>, <<"1", "0", "9", "x", "2", "x", "2", "9">>}
DateInputs == SlashDates \cup RunDates \cup OtherDates

InitDate ==
  /\ AtRest
  /\ call \in [fn : {"none"}, arg : DateInputs, out : {NoOut}]

\* hub.utils.parse_roc_date(arg)
CallParseRocDate ==
  /\ call.fn = "none"
  /\ call' = [call EXCEPT !.fn = "utils.parse_roc_date",
                          !.out = parse_roc_date(call.arg)]
  /\ UNCHANGED <<run, aside>>

\* import_urban_renewal_raw_csv.parse_roc_date(arg)
CallRawCsvParseRocDate ==
  /\ call.fn = "none"
  /\ call' = [call EXCEPT !.fn = "raw_csv.parse_roc_date",
                          !.out = raw_csv_parse_roc_date(call.arg)]
  /\ UNCHANGED <<run, aside>>

NextDate == CallParseRocDate \/ CallRawCsvParseRocDate

SpecDate == InitDate /\ [][NextDate]_vars

\* Field mappings: texts of up to one character more than the longest
\* item text.
ClipTexts == SeqsUpTo({"a", "b"}, MaxTextLen + 1)
ClipValues == {Absent, Null} \cup {Str(t) : t \in ClipTexts}
ClipInputs == [FieldNames -> ClipValues]

InitClip ==
  /\ AtRest
  /\ call \in [fn : {"none"}, arg : ClipInputs, out : {NoOut}]

\* clip_to_model(model_cls, arg)
CallClipToModel ==
  /\ call.fn = "none"
  /\ call' = [call EXCEPT !.fn = "clip_to_model",
                          !.out = clip_to_model_data(call.arg)]
  /\ UNCHANGED <<run, aside>>

\* clip_to_model(model_cls, <the result of the first call>)
CallClipToModelAgain ==
  /\ call.fn = "clip_to_model"
  /\ call' = [fn |-> "clip_to_model again", arg |-> call.out,
              out |-> clip_to_model_data(call.out)]
  /\ UNCHANGED <<run, aside>>

NextClip == CallClipToModel \/ CallClipToModelAgain

SpecClip == InitClip /\ [][NextClip]_vars

\* Land descriptors: <name> duan <numeral> xiao duan <parcel>, and
\* descriptors of other shapes.
LandNames == {<<"A">>, <<"A", "B">>}
ChineseNumerals == {<<"yi">>, <<"er">>, <<"yi", "er">>}
ArabicNumerals == {<<"2">>}
ParcelDigits == {<<"2", "9", "2">>, <<"7">>, <<"0", "5">>}
ParcelTexts == ParcelDigits \cup {<<"2", "9", "2", "-", "3">>}
ShapedLand(numerals, parcels) ==
  {n \o <<"duan">> \o u \o <<"xiao", "duan">> \o p :
     n \in LandNames, u \in numerals, p \in parcels}
OtherLand == {<<>>, <<" ">>, <<"A", "duan", "2", "9", "2">>,
              <<"A", "duan", "(", "B", "duan", ")", "7">>,
              <<"A", "duan", " ", "yi", "xiao", "duan", " ", "7">>,
              <<"di", "duan", ":", "A", " ", "xiao", "duan", ":", "yi">>,
              <<"2", "9", "2", "ideographic_comma", "2", "9", "3">>,
              <<"xiao", "duan", ":", " ", "er", ",", "7">>}
LandInputs ==
  ShapedLand(ChineseNumerals \cup ArabicNumerals, ParcelTexts) \cup OtherLand

InitLand ==
  /\ AtRest
  /\ call \in [fn : {"none"}, arg : LandInputs, out : {NoOut}]

\* hub.utils.parse_land_text(arg)
CallParseLandText ==
  /\ call.fn = "none"
  /\ call' = [call EXCEPT !.fn = "parse_land_text",
                          !.out = parse_land_text(call.arg)]
  /\ UNCHANGED <<run, aside>>

\* import_urban_renewal_xlsx.parse_parcel(arg)
CallParseParcel ==
  /\ call.fn = "none"
  /\ call' = [call EXCEPT !.fn = "parse_parcel",
                          !.out = parse_parcel(call.arg)]
  /\ UNCHANGED <<run, aside>>

NextLand == CallParseLandText \/ CallParseParcel

SpecLand == InitLand /\ [][NextLand]_vars

\* Numeric cells: sign, digits with or without thousands separators, a
\* fraction, a unit or percent glyph; and cells that denote no number.
NumSigns == {<<>>, <<"-">>}
NumWholes == {<<"7">>, <<"1", "2">>, <<"1", ",", "2", "3", "4">>}
NumFractions == {<<>>, <<".", "5">>, <<".", "5", "0">>}
NumGlyphs == {<<>>, <<"sqm">>, <<"%">>, <<"fullwidth_percent">>}
WellFormedNumbers ==
  {g \o w \o f \o u :
     g \in NumSigns, w \in NumWholes, f \in NumFractions, u \in NumGlyphs}
NotNumbers == {<<>>, <<" ">>, <<"x">>, <<"-">>, <<"x", "1", "2">>,
               <<"1", ".", "2", ".", "3">>, <<",">>, <<"sqm">>,
               <<"1", "2", "x">>}
NumInputs == WellFormedNumbers \cup NotNumbers

InitNum ==
  /\ AtRest
  /\ call \in [fn : {"none"}, arg : NumInputs, out : {NoOut}]

\* import_permit_xml.to_decimal(arg)
CallToDecimal ==
  /\ call.fn = "none"
  /\ call' = [call EXCEPT !.fn = "to_decimal", !.out = to_decimal(call.arg)]
  /\ UNCHANGED <<run, aside>>

\* import_permit_xml.to_int(arg)
CallToInt ==
  /\ call.fn = "none"
  /\ call' = [call EXCEPT !.fn = "to_int", !.out = to_int(call.arg)]
  /\ UNCHANGED <<run, aside>>

\* import_urban_renewal_raw_csv.to_decimal(arg)
CallRawCsvToDecimal ==
  /\ call.fn = "none"
  /\ call' = [call EXCEPT !.fn = "raw_csv.to_decimal",
                          !.out = raw_csv_to_decimal(call.arg)]
  /\ UNCHANGED <<run, aside>>

\* hub.models_use_permit.parse_decimal_maybe(arg)
CallParseDecimalMaybe ==
  /\ call.fn = "none"
  /\ call' = [call EXCEPT !.fn = "parse_decimal_maybe",
                          !.out = parse_decimal_maybe(call.arg)]
  /\ UNCHANGED <<run, aside>>

NextNum ==
  \/ CallToDecimal
  \/ CallToInt
  \/ CallRawCsvToDecimal
  \/ CallParseDecimalMaybe

SpecNum == InitNum /\ [][NextNum]_vars

\* Rows of the raw CSV: cells that are empty, a number, a padded number,
\* a superscript digit, an area with a district, a word, a date, a
\* percentage.
RowCells == {<<>>, <<"1", "2">>, <<" ", "7", " ">>, <<"superscript_two">>, <<"3", "2", "7", " ", "A">>, <<"A">>, <<"1", "0", "8", "/", "3", "/", "1", "9">>, <<"5", "0", "%">>}
\* Long rows: a number, a district, empty cells, then a date at or past
\* the end of the window that is scanned for the date, then a tail.
Blanks(k) == [j \in 1..k |-> <<>>]
LongRows ==
  {<<<<"1", "2">>, <<"A">>>> \o Blanks(k)
     \o <<<<"1", "0", "8", "/", "3", "/", "1", "9">>>> \o t :
     k \in (date_scan_end - 4)..(date_scan_end - 1),
     t \in {<<>>, <<<<"5", "0", "%">>, <<"A">>>>}}
RowInputs == SeqsUpTo(RowCells, MaxCols) \cup LongRows

InitRow ==
  /\ AtRest
  /\ call \in [fn : {"none"}, arg : RowInputs, out : {NoOut}]

\* extract_case_row(arg)
CallExtractCaseRow ==
  /\ call.fn = "none"
  /\ call' = [call EXCEPT !.fn = "extract_case_row",
                          !.out = extract_case_row(call.arg)]
  /\ UNCHANGED <<run, aside>>

NextRow == CallExtractCaseRow

SpecRow == InitRow /\ [][NextRow]_vars

\* <Data> elements: scalar children with a text, wrapper children with
\* items, children of another tag.
LeafTexts == {<<" ">>, <<"a">>, <<" ", "b", " ">>}
Leaves == [tag : {"addr"}, text : LeafTexts, kids : {<<>>}]
            \cup {[tag |-> "other", text |-> <<"a">>, kids |-> <<>>]}
Kids == [tag : {"key"}, text : LeafTexts, kids : {<<>>}]
          \cup [tag : {"loc"}, text : {<<>>}, kids : SeqsUpTo(Leaves, MaxItems)]
          \cup {[tag |-> "other", text |-> <<"a">>, kids |-> <<>>]}
DataElements == [tag : {"Data"}, text : {<<>>}, kids : SeqsUpTo(Kids, MaxKids)]

InitXml ==
  /\ AtRest
  /\ call \in [fn : {"none"}, arg : DataElements, out : {NoOut}]

\* permit_no = _txt(_child(elem, <key tag>))
CallChildText ==
  /\ call.fn = "none"
  /\ call' = [call EXCEPT !.fn = "_txt(_child)",
                          !.out = _txt(_child(call.arg, "key"))]
  /\ UNCHANGED <<run, aside>>

\* the addresses list of handle()
CallCollect ==
  /\ call.fn = "none"
  /\ call' = [call EXCEPT !.fn = "collect",
                          !.out = collect(call.arg, "loc", "addr")]
  /\ UNCHANGED <<run, aside>>

NextXml == CallChildText \/ CallCollect

SpecXml == InitXml /\ [][NextXml]_vars

\* --------------------------------------------------- match_wre_to_permits
exact_cap == 20          \* pqs[:20]
fallback_cap == 10       \* pqs[:10]
min_address_len == 6     \* len(key) >= 6

normalize(s) == strip(s)

\* location__contains=key
Contains(hay, needle) ==
  \E i \in 0..(Len(hay) - Len(needle)) :
     SubSeq(hay, i + 1, i + Len(needle)) = needle

\* qs[:n] of a queryset in id order, as the positions it keeps.
FirstN(S, n) == {j \in S : Cardinality({h \in S : h < j}) < n}

\* The tables: WreApproval and BuildingPermit rows in id order.
KeyParts == {<<>>, <<"x">>}
Addresses == {<<>>,
              <<"a", "b", "c", "d", "e", " ">>,
              <<"a", "b", "c", "d", "e", "f">>}
WreApprovals ==
  [district : {<<"x">>, <<" ", "x">>}, section : {<<"x">>},
   subsection : KeyParts, parcel_no : {<<"x">>}, address : Addresses]
BuildingPermits ==
  [district : {<<"x">>, <<"y">>}, section : {<<"x">>},
   subsection : {<<"x">>}, parcel_no : {<<"x">>},
   location : {<<"z", "a", "b", "c", "d", "e", "f">>, <<"a", "b", "c", "d", "e">>}]

MatcherOpts == [limit : 0..MaxLimit, dry_run : BOOLEAN, use_address : BOOLEAN]

\* BuildingPermit.objects.filter(district=d, section=sec, subsection=sub,
\* parcel_no=parcel)
ExactOf(permits, d, sec, sub, parcel) ==
  {j \in 1..Len(permits) :
     /\ permits[j].district = d
     /\ permits[j].section = sec
     /\ permits[j].subsection = sub
     /\ permits[j].parcel_no = parcel}

TriesAddress_AlsoMatched(matched, use_addr, addr) ==
  use_addr /\ addr # <<>> /\ Len(addr) >= min_address_len

\* "if (not matched) and use_addr and addr", then "if len(key) >= 6"
TriesAddress(matched, use_addr, addr) ==
  ~matched /\ use_addr /\ addr # <<>> /\ Len(addr) >= min_address_len

\* WrePermitMatch.objects.get_or_create(wre, permit, match_type, defaults):
\* the rows among "rows" that it creates.
match_get_or_create(matches, rows) ==
  {r \in rows :
     ~\E q \in matches : /\ q.wre = r.wre
                          /\ q.permit = r.permit
                          /\ q.match_type = r.match_type}

InitMatch ==
  /\ NoImport
  /\ runs = NoRuns
  /\ xlsx = NoXlsx
  /\ call = NoCall
  /\ matcher \in [pc : {"idle"},
                   approvals : SeqsUpTo(WreApprovals, MaxApprovals),
                   permits : SeqsUpTo(BuildingPermits, MaxPermits),
                   opts : {[limit |-> 0, dry_run |-> FALSE, use_address |-> FALSE]},
                   i : {0}, created : {0}, skipped : {0}, matches : {{}}]

\* The operator runs the matcher, for the first time or again.
MatchInvoke ==
  /\ matcher.pc \in {"idle", "done"}
  /\ \E o \in MatcherOpts :
       matcher' = [matcher EXCEPT !.pc = "loop", !.opts = o, !.i = 0,
                                  !.created = 0, !.skipped = 0]
  /\ UNCHANGED <<run, runs, xlsx, call>>

\* One approval of "for w in qs".
MatchApproval ==
  /\ matcher.pc = "loop"
  /\ matcher.i < (IF matcher.opts.limit # 0
                  THEN min(matcher.opts.limit, Len(matcher.approvals))
                  ELSE Len(matcher.approvals))
  /\ LET k == matcher.i + 1
         w == matcher.approvals[k]
         d == normalize(w.district)
         sec == normalize(w.section)
         sub == normalize(w.subsection)
         parcel == normalize(w.parcel_no)
         addr == normalize(w.address)
         pqs == IF d # <<>> /\ sec # <<>> /\ sub # <<>> /\ parcel # <<>>
                THEN ExactOf(matcher.permits, d, sec, sub, parcel)
                ELSE {}
         tried == TriesAddress(pqs # {}, matcher.opts.use_address, addr)
         fqs == IF tried
                THEN {j \in 1..Len(matcher.permits) :
                        Contains(matcher.permits[j].location, addr)}
                ELSE {}
         rows == {[wre |-> k, permit |-> j, match_type |-> "exact",
                   rule_ok |-> TRUE] : j \in FirstN(pqs, exact_cap)}
                 \cup {[wre |-> k, permit |-> j, match_type |-> "multi_parcel",
                        rule_ok |-> FALSE] : j \in FirstN(fqs, fallback_cap)}
         new == match_get_or_create(matcher.matches, rows)
     IN matcher' =
          [matcher EXCEPT
             !.i = k,
             !.matches = IF matcher.opts.dry_run THEN @ ELSE @ \cup new,
             !.created = @ + (IF matcher.opts.dry_run THEN Cardinality(rows)
                              ELSE Cardinality(new)),
             !.skipped = @ + (IF pqs # {} \/ fqs # {} THEN 0 ELSE 1)]
  /\ UNCHANGED <<run, runs, xlsx, call>>

\* The loop is exhausted: "Done. created_matches=..." is written.
MatchDone ==
  /\ matcher.pc = "loop"
  /\ matcher.i = (IF matcher.opts.limit # 0
                  THEN min(matcher.opts.limit, Len(matcher.approvals))
                  ELSE Len(matcher.approvals))
  /\ matcher' = [matcher EXCEPT !.pc = "done"]
  /\ UNCHANGED <<run, runs, xlsx, call>>

NextMatch == MatchInvoke \/ MatchApproval \/ MatchDone

SpecMatch == InitMatch /\ [][NextMatch]_vars

\* ------------------------------------------------- two import processes
\* One turn of the loop of handle() in a live run without limit: the
\* record's transaction on the committed tables st, and where the run is
\* after it.
Turn(imp, st, rec, upsert) ==
  IF rec.key = NoKey THEN [st |-> st, pc |-> "loop"]
  ELSE IF DateRaises(imp, rec) THEN [st |-> st, pc |-> "aborted"]
  ELSE LET r == WriteParent(st, rec, upsert)
           rows == address_objs(imp, rec.items)
       IN IF ~r.ok \/ ~Accepts(rows) THEN [st |-> st, pc |-> "aborted"]
          ELSE [st |-> bulk_create(DeleteChildren(r.st, rec.key),
                                   rec.key, rows),
                pc |-> "loop"]

\* The files of the two processes: the first has the key A only, the
\* second any key or none.
RaceRecords(keys) ==
  {r \in XmlRecords : r.key \in keys /\ Len(r.items) <= 1}
RaceFiles(keys) == SeqsUpTo(RaceRecords(keys), MaxRecs)

\* Two processes run "<importer> --file F --upsert" at the same time.
InitTwo ==
  /\ importer \in XmlImporters
  /\ file = <<>>
  /\ opts = [NoOpts EXCEPT !.upsert = TRUE]
  /\ exists = TRUE
  /\ again = FALSE
  /\ pc = "idle"
  /\ err = "none"
  /\ idx = 0
  /\ stats = Stats
  /\ cur = NoRec
  /\ db = EmptyStore
  /\ committed = EmptyStore
  /\ store0 = EmptyStore
  /\ nwritten = 0
  /\ held = {}
  /\ matcher = NoMatcher
  /\ xlsx = NoXlsx
  /\ call = NoCall
  /\ \E f \in RaceFiles({"A"}), g \in RaceFiles(Keys) :
       runs = [pc |-> "racing",
               file |-> <<f, g>>,
               idx |-> <<0, 0>>,
               at |-> <<"loop", "loop">>,
               order |-> <<>>]

\* Process p commits the transaction of its next record, or leaves the
\* loop by the exception.
RaceTurn(p) ==
  /\ runs.pc = "racing"
  /\ runs.at[p] = "loop"
  /\ runs.idx[p] < Len(runs.file[p])
  /\ LET r == Turn(importer, committed, runs.file[p][runs.idx[p] + 1],
                   opts.upsert)
     IN /\ committed' = r.st
        /\ runs' = [runs EXCEPT !.idx[p] = @ + 1,
                                !.at[p] = r.pc,
                                !.order = Append(@, p)]
  /\ UNCHANGED <<importer, file, opts, exists, again, pc, err, idx, stats,
                 cur, db, store0, nwritten, held, matcher, xlsx, call>>

\* Process p has read its file to the end and writes its summary.
RaceSummary(p) ==
  /\ runs.pc = "racing"
  /\ runs.at[p] = "loop"
  /\ runs.idx[p] = Len(runs.file[p])
  /\ runs' = [runs EXCEPT !.at[p] = "done"]
  /\ UNCHANGED <<importer, file, opts, exists, again, pc, err, idx, stats,
                 cur, db, committed, store0, nwritten, held, matcher, xlsx,
                 call>>

NextTwo == \E p \in {1, 2} : RaceTurn(p) \/ RaceSummary(p)

SpecTwo == InitTwo /\ [][NextTwo]_vars

\* ------------------------------------------- import_urban_renewal_xlsx
\* A cell of the sheet: None or a string.
NoCell == [kind |-> "None", s |-> <<>>]

\* str.lower() on the letters that matter to the "nan" test.
lower(s) ==
  [i \in 1..Len(s) |-> CASE s[i] = "N" -> "n" [] s[i] = "A" -> "a"
                          [] OTHER -> s[i]]

\* to_decimal of import_urban_renewal_xlsx
xlsx_to_decimal(v) ==
  IF v.kind = "None" THEN NoNum
  ELSE LET t == strip(v.s)
       IN IF t = <<>> \/ lower(t) = <<"n", "a", "n">> THEN NoNum
          ELSE DecimalOrNone(remove_glyphs(t))

\* BONUS_FIELD_MAP: the codes of the bonus columns (two of the eight).
BonusCodes == {"structure", "seismic"}

\* "case_seq = int(case_seq)": the case number, or 0 when the cell is None
\* or int() raises.
case_no_of(v) ==
  IF v.kind = "str" /\ isdigit(strip(v.s)) THEN int(strip(v.s)) ELSE 0

CaseNos == {1, 2}
SheetRows ==
  [case_seq : {NoCell, Str(<<"x">>), Str(<<"1">>), Str(<<" ", "2">>)},
   structure : {NoCell, Str(<<"5">>), Str(<<"7", "%">>)},
   seismic : {NoCell, Str(<<"n", "a", "N">>), Str(<<"5">>)}]
Sheets == SeqsUpTo(SheetRows, MaxRecs)

XlsxOpts == [clear : BOOLEAN, dry_run : BOOLEAN, limit : 0..MaxLimit]

NoCase == [present |-> FALSE, bonus |-> [c \in BonusCodes |-> NoNum]]
XlsxStats == [processed |-> 0, created |-> 0, updated |-> 0, skipped |-> 0,
              bonus_created |-> 0, bonus_updated |-> 0]

InitXlsx ==
  /\ NoImport
  /\ matcher = NoMatcher
  /\ runs = NoRuns
  /\ call = NoCall
  /\ \E f \in Sheets :
       xlsx = [pc |-> "idle", rows |-> f,
               opts |-> [clear |-> FALSE, dry_run |-> FALSE, limit |-> 0],
               idx |-> 0, stats |-> XlsxStats,
               cases |-> [k \in CaseNos |-> NoCase]]

\* The operator runs the command on the sheet: the path is checked, the
\* cases are cleared if asked, the sheet is read.
XlsxInvoke ==
  /\ xlsx.pc \in {"idle", "done", "aborted"}
  /\ \E o \in XlsxOpts, e \in BOOLEAN :
       xlsx' = [xlsx EXCEPT
                  !.pc = IF e THEN "loop" ELSE "aborted",
                  !.opts = o, !.idx = 0, !.stats = XlsxStats,
                  !.cases = IF e /\ o.clear /\ ~o.dry_run
                            THEN [k \in CaseNos |-> NoCase] ELSE @]
  /\ UNCHANGED <<run, matcher, runs, call>>

\* update_or_create of the bonus rows of one case: a row is written for
\* every code whose cell gives a number; no row is deleted.
write_bonuses(old, row) ==
  [c \in BonusCodes |->
     IF xlsx_to_decimal(row[c]) # NoNum THEN xlsx_to_decimal(row[c])
     ELSE old[c]]

\* One row of "for idx, row in enumerate(rows)".
XlsxRow ==
  /\ xlsx.pc = "loop"
  /\ xlsx.idx < Len(xlsx.rows)
  /\ ~(xlsx.opts.limit # 0 /\ xlsx.idx >= xlsx.opts.limit)
  /\ LET row == xlsx.rows[xlsx.idx + 1]
         k == case_no_of(row.case_seq)
         given == {c \in BonusCodes : xlsx_to_decimal(row[c]) # NoNum}
         old == xlsx.cases[k]
         stored == {c \in given : old.present /\ old.bonus[c] # NoNum}
     IN IF k \notin CaseNos
        THEN xlsx' = [xlsx EXCEPT !.idx = @ + 1, !.stats.skipped = @ + 1]
        ELSE IF xlsx.opts.dry_run
        THEN xlsx' = [xlsx EXCEPT
                        !.idx = @ + 1,
                        !.stats.processed = @ + 1,
                        !.stats.created = @ + 1,
                        !.stats.bonus_created = @ + Cardinality(given)]
        ELSE xlsx' = [xlsx EXCEPT
                        !.idx = @ + 1,
                        !.stats.processed = @ + 1,
                        !.stats.created = @ + (IF old.present THEN 0 ELSE 1),
                        !.stats.updated = @ + (IF old.present THEN 1 ELSE 0),
                        !.stats.bonus_created = @ + Cardinality(given \ stored),
                        !.stats.bonus_updated = @ + Cardinality(stored),
                        !.cases[k] = [present |-> TRUE,
                                      bonus |-> write_bonuses(old.bonus, row)]]
  /\ UNCHANGED <<run, matcher, runs, call>>

\* The loop ends, at the end of the sheet or at the limit: "Done. ...".
XlsxSummary ==
  /\ xlsx.pc = "loop"
  /\ \/ xlsx.idx = Len(xlsx.rows)
     \/ xlsx.opts.limit # 0 /\ xlsx.idx >= xlsx.opts.limit
  /\ xlsx' = [xlsx EXCEPT !.pc = "done"]
  /\ UNCHANGED <<run, matcher, runs, call>>

NextXlsx == XlsxInvoke \/ XlsxRow \/ XlsxSummary

SpecXlsx == InitXlsx /\ [][NextXlsx]_vars

\* ---------------------------------------------------------------- claims
Min(a, b) == IF a < b THEN a ELSE b

\* Records of the file a run with these options takes up before the limit
\* stops it, and those among them that carry a natural key.
Within(o) == IF o.limit = 0 THEN Len(file) ELSE Min(o.limit, Len(file))
Keyed(n) == Cardinality({i \in 1..n : file[i].key # NoKey})

Live == exists /\ ~opts.dry_run /\ ~opts.show_keys

\* The tables a live run of the XML importer imp with options o leaves when
\* it starts at record i of the file with the tables st and the processed
\* count p: the loop of handle(), one transaction per record, ended by the
\* limit or by the first exception.
RECURSIVE ImportFrom(_, _, _, _, _)
ImportFrom(imp, o, st, i, p) ==
  IF i > Len(file) \/ OverLimit(o, p + 1) THEN st
  ELSE IF file[i].key = NoKey THEN ImportFrom(imp, o, st, i + 1, p + 1)
  ELSE IF DateRaises(imp, file[i]) THEN st
  ELSE LET r == WriteParent(st, file[i], o.upsert)
           rows == address_objs(imp, file[i].items)
       IN IF ~r.ok \/ ~Accepts(rows) THEN st
          ELSE ImportFrom(imp, o,
                 bulk_create(DeleteChildren(r.st, file[i].key),
                             file[i].key, rows),
                 i + 1, p + 1)

\* C1: in upsert mode a second live run of the XML import on the same file
\* with the same options leaves the parent and child tables exactly as the
\* first run left them, and when it completes it reports created = 0 and
\* updated = the number of keyed records it took up, all of them committed.
C1_RerunIsIdempotent ==
  (Ended /\ again /\ importer \in XmlImporters /\ Live
     /\ opts.upsert /\ ~opts.clear)
    => /\ committed = store0
       /\ pc = "done" => /\ stats.created = 0
                         /\ stats.updated = Keyed(Within(opts))
                         /\ stats.updated = nwritten

C1_Witness ==
  /\ pc = "done" /\ again /\ importer \in XmlImporters /\ Live
  /\ opts.upsert /\ ~opts.clear
  /\ nwritten = 2
  /\ \E k \in NonEmptyKeys : Len(committed.child[k]) = 2

PersistenceErrors == {"IntegrityError", "DataError"}

\* C2: an exception raised while one record is persisted never ends the
\* run: the run is not left by that exception.
C2_RecordFailureDoesNotAbort ==
  err \in PersistenceErrors => pc # "aborted"

\* C3: whenever an importer takes up a record without its natural key (and
\* the limit has not stopped the run), nothing is written to the store and
\* the skipped counter goes up by exactly one.
TakesKeylessRecord ==
  /\ pc = "loop" /\ idx < Len(file) /\ idx' = idx + 1
  /\ file[idx + 1].key = NoKey
  /\ ~OverLimit(opts, stats.processed + 1)
  /\ importer # "import_urban_renewal_raw_csv"

C3_KeylessRecordIsSkipped ==
  [][TakesKeylessRecord
       => /\ committed' = committed
          /\ db' = db
          /\ stats'.skipped = stats.skipped + 1]_vars

\* C4: with dry-run set, whatever the file and the other options, the
\* tables are at every point of the run what they were when it started.
C4_DryRunWritesNothing ==
  (pc # "idle" /\ opts.dry_run) => (committed = store0 /\ db = store0)

C4_Witness ==
  /\ pc = "done" /\ opts.dry_run /\ opts.clear
  /\ stats.created = 2
  /\ \E k \in NonEmptyKeys : Len(store0.child[k]) = 2

\* C5: a live run with clear ends with the tables a live run of the same
\* file with the same options leaves when it starts on the empty store.
C5_ClearThenImportIsFreshImport ==
  (Ended /\ importer \in XmlImporters /\ opts.clear /\ ~opts.dry_run)
    => committed = IF exists /\ ~opts.show_keys
                   THEN ImportFrom(importer, opts, EmptyStore, 1, 0)
                   ELSE EmptyStore

C5_Witness ==
  /\ pc = "done" /\ importer \in XmlImporters /\ opts.clear /\ Live
  /\ nwritten = 1
  /\ \E k \in NonEmptyKeys :
       /\ store0.parent[k].present /\ Len(store0.child[k]) > 0
       /\ ~committed.parent[k].present
  /\ \E k \in NonEmptyKeys : Len(committed.child[k]) > 0

\* C6: the committed tables change only by the clear or by one record's
\* whole transaction: the parent row of that record and the child rows
\* built from that same record become visible together, and the rows of
\* every other parent stay as they were.
C6_RecordIsOneAtomicUnit ==
  [][(importer \in XmlImporters /\ committed' # committed)
       => \/ pc = "start" /\ committed' = EmptyStore
          \/ /\ pc = "tx"
             /\ \A k \in NonEmptyKeys :
                  IF k = cur.key
                  THEN /\ committed'.parent[k] = Row(cur)
                       /\ committed'.child[k] = address_objs(importer, cur.items)
                  ELSE /\ committed'.parent[k] = committed.parent[k]
                       /\ committed'.child[k] = committed.child[k]]_vars

C6_Witness ==
  /\ pc = "tx"
  /\ committed.parent[cur.key].present
  /\ committed.parent[cur.key].raw # cur
  /\ db.parent[cur.key].raw = cur
  /\ Len(committed.child[cur.key]) > 0

\* The non-blank items of the record a parent row was last written from.
LastItems(k) ==
  SelectSeq(committed.parent[k].raw.items, LAMBDA t : t # <<>>)

Cut(t) == IF Len(t) > address_max_length
          THEN SubSeq(t, 1, address_max_length) ELSE t

C8_LimitBoundsTheRun ==
  (pc = "done" /\ importer # "import_building_permits")
    => IF opts.limit > 0
       THEN stats.processed <= opts.limit /\ nwritten <= opts.limit
       ELSE idx = Len(file)

\* C9: when the file does not exist the tables stay what they were when
\* the command was invoked, whatever the options.
C9_MissingFileLeavesStore ==
  (pc # "idle" /\ ~exists) => committed = store0

\* C10: with show-keys set the tables stay what they were when the command
\* was invoked, whatever the file and the other options.
C10_ShowKeysWritesNothing ==
  (pc # "idle" /\ exists /\ opts.show_keys) => committed = store0

\* The tables the records of the current run are written to: the tables at
\* invocation, emptied when the run began with the clear.
RunBase == IF ClearWanted(opts) THEN Clear(store0) ELSE store0

NewKeys == {k \in NonEmptyKeys :
              committed.parent[k].present /\ ~RunBase.parent[k].present}

\* C11: in a live upsert run, between two records and at the summary, the
\* created counter is the number of natural keys the run added to the store
\* (a record counts as created exactly when its key was not stored before
\* it) and created + updated is the number of records the run persisted.
C11_CreatedOrUpdatedPerRecord ==
  (pc \in {"loop", "done"} /\ Live /\ opts.upsert)
    => /\ stats.created = Cardinality(NewKeys)
       /\ stats.created + stats.updated = nwritten

C11_Witness ==
  /\ pc = "done" /\ Live /\ opts.upsert /\ ~again
  /\ stats.created = 1 /\ stats.updated = 1
  /\ store0 = EmptyStore

\* An insert-only live run takes up a record whose natural key is stored.
TakesDuplicateKey ==
  /\ pc = "loop" /\ importer \in XmlImporters /\ idx < Len(file)
  /\ idx' = idx + 1
  /\ Live /\ ~opts.upsert
  /\ ~OverLimit(opts, stats.processed + 1)
  /\ file[idx + 1].key # NoKey
  /\ committed.parent[file[idx + 1].key].present

\* C12: in insert-only mode a record whose natural key is already stored
\* fails with the integrity error of the unique key, and the tables (the
\* stored parent row and its child rows among them) stay exactly as they
\* were.
C12_InsertOnlyDuplicateFails ==
  [][TakesDuplicateKey
       => /\ pc' = "aborted"
          /\ err' \in {"IntegrityError", "ValueError"}
          /\ committed' = committed
          /\ db' = committed]_vars

C12_Witness ==
  /\ err = "IntegrityError" /\ ~opts.upsert /\ idx > 0
  /\ LET k == file[idx].key IN
       /\ committed.parent[k].present
       /\ committed.parent[k].raw # file[idx]
       /\ Len(committed.child[k]) > 0
       /\ committed.child[k] # address_objs(importer, file[idx].items)

DateParsers == {"utils.parse_roc_date", "raw_csv.parse_roc_date"}

\* The calendar date an input denotes: year part of two or three digits
\* plus the epoch offset, month and day parts, when that is a date.
Denotes(text) ==
  LET s == strip(text)
      p == split(s, "/")
      n == Len(s)
  IN IF MatchesSlashForm(s)
     THEN date(int(p[1]) + roc_epoch, int(p[2]), int(p[3]))
     ELSE IF MatchesRunForm(s)
     THEN date(int(SubSeq(s, 1, n - 4)) + roc_epoch,
               int(SubSeq(s, n - 3, n - 2)), int(SubSeq(s, n - 1, n)))
     ELSE NoOut

\* C14: a date parser never raises: it returns the date an input in the
\* Y/M/D form denotes when that is a calendar date, and no value for an
\* input in that form that is no calendar date.
C14_DateParserIsTotal ==
  call.fn \in DateParsers
    => /\ call.out.kind # "ValueError"
       /\ MatchesSlashForm(strip(call.arg))
            => call.out = IF Denotes(call.arg).kind = "date"
                          THEN Denotes(call.arg) ELSE NoOut

\* C13: a keyed record with a field that cannot be normalized never ends
\* the run: no run is left by the exception of a normalizer.
C13_NormalizationNeverHalts ==
  err = "ValueError" => pc # "aborted"

\* C15: every child text an importer passes to the store inside a
\* record's transaction fits its column: it has been clipped before.
C15_WritesAreClipped ==
  pc = "tx" => Accepts(address_objs(importer, cur.items))

IsPrefix(a, b) == Len(a) <= Len(b) /\ a = SubSeq(b, 1, Len(a))

\* C16: every bounded text field of the result of clip_to_model is at most
\* max_length long and is the beginning of the field passed in; fields
\* that are unbounded, absent or null come back as passed; and
\* clip_to_model applied to its own result returns it unchanged.
C16_ClipBoundsAndIsIdempotent ==
  /\ call.fn = "clip_to_model" =>
       \A f \in FieldNames :
         IF IsCharField(f) /\ call.arg[f].kind = "str"
         THEN /\ call.out[f].kind = "str"
              /\ Len(call.out[f].s) <= max_length_of[f]
              /\ IsPrefix(call.out[f].s, call.arg[f].s)
              /\ Len(call.arg[f].s) <= max_length_of[f]
                   => call.out[f] = call.arg[f]
         ELSE call.out[f] = call.arg[f]
  /\ call.fn = "clip_to_model again" => call.out = call.arg

C16_Witness ==
  /\ call.fn = "clip_to_model again"
  /\ call.arg["permit_year"] = Str(<<"b">>)
  /\ call.arg["designer"] = Str(<<"a", "b">>)
  /\ call.arg["notes"] = Str(<<"a", "b", "a">>)

\* C17: the archival payload of every stored parent is a whole record of
\* the input file carrying that key, every item text at full length,
\* whatever was clipped in the child rows.
C17_RawIsTheWholeRecord ==
  \A k \in NonEmptyKeys :
    committed.parent[k].present
      => \E i \in 1..Len(file) :
           file[i].key = k /\ committed.parent[k].raw = file[i]

C17_Witness ==
  /\ importer = "import_permit_xml"
  /\ \E k \in NonEmptyKeys :
       /\ committed.parent[k].present
       /\ Len(committed.child[k]) = 1
       /\ Len(committed.child[k][1].text) = address_max_length
       /\ \E i \in 1..Len(committed.parent[k].raw.items) :
            Len(committed.parent[k].raw.items[i]) > address_max_length

\* The decomposition of name duan numeral xiao duan digits: the section
\* is the name with its suffix, the sub-section the numeral with its
\* suffix, the parcel the digits as a number followed by -0000.
Decomposed(n, u, p) ==
  [sec |-> n \o <<"duan">>,
   sub |-> u \o <<"xiao", "duan">>,
   parcel |-> str(int(p)) \o <<"-", "0", "0", "0", "0">>]

\* C18: parse_land_text of a descriptor <name> duan <numeral> xiao duan
\* <digits> returns its section, its sub-section without the section
\* text, and its parcel in the zero-padded form.
C18_LandTextIsDecomposed ==
  call.fn = "parse_land_text" =>
    \A n \in LandNames, u \in ChineseNumerals, p \in ParcelDigits :
      call.arg = n \o <<"duan">> \o u \o <<"xiao", "duan">> \o p
        => call.out = Decomposed(n, u, p)

DecimalCoercers == {"to_decimal", "raw_csv.to_decimal", "parse_decimal_maybe"}

\* The number a cell denotes: the cell without separators and glyphs read
\* as a decimal number, or no value.
DenotedNumber(text) ==
  LET s == SelectSeq(strip(text), LAMBDA c : c \notin Glyphs)
  IN IF Decimal(s).kind = "Decimal" THEN Decimal(s) ELSE NoNum

\* C19: every decimal coercer returns, for a well-formed number written
\* with thousands separators and a unit or percent glyph, the whole number
\* denoted, and for a cell that denotes no number no value.
C19_CoercersStripGlyphs ==
  call.fn \in DecimalCoercers
    => IF call.arg \in WellFormedNumbers
       THEN call.out = DenotedNumber(call.arg)
       ELSE call.out = NoNum

\* C20: extract_case_row never raises; it returns "not a record" exactly
\* for the empty row and for a row whose trimmed first cell is not a run of
\* digits; every other row gives a record numbered by that cell.
C20_RowParserIsTotal ==
  call.fn = "extract_case_row" =>
    /\ call.out.kind # "ValueError"
    /\ call.out.kind = "None"
         <=> (call.arg = <<>> \/ ~isdigit(strip(call.arg[1])))
    /\ call.out.kind = "record"
         => call.out.case_no = int(strip(call.arg[1]))

\* The cell at index i of a row, counted from 0, trimmed.
CellAt(row, i) == strip(row[i + 1])

IsValidDateCell(x) == MatchesSlashForm(x) /\ Denotes(x).kind = "date"

\* Indices from 2 up to the end of the row or 11 whose cell is a date.
AnchorsOf(row) ==
  {i \in 2..(Min(Len(row), 12) - 1) : IsValidDateCell(CellAt(row, i))}

\* The non-empty cells at indices a..b of the row, each followed by one
\* space except the last.
RECURSIVE SpacedCells(_, _, _)
SpacedCells(row, a, b) ==
  IF a > b \/ a >= Len(row) THEN <<>>
  ELSE LET rest == SpacedCells(row, a + 1, b)
           c == CellAt(row, a)
       IN IF c = <<>> THEN rest
          ELSE IF rest = <<>> THEN c ELSE c \o <<" ">> \o rest

\* C21: for every row that is a record, the approval date is the date of
\* the cell at the smallest index 2 <= i < min(length, 12) that is a valid
\* date and the free text is the non-empty cells at 2..i-1 joined by single
\* spaces; without such a cell the approval date is no value and the free
\* text is the non-empty cells at 2..5 joined by single spaces.
C21_AnchorIsFirstDateInWindow ==
  (call.fn = "extract_case_row" /\ call.out.kind = "record") =>
    LET row == call.arg
        as == AnchorsOf(row)
        i == CHOOSE a \in as : \A b \in as : a <= b
    IN IF as # {}
       THEN /\ call.out.approved_date = Denotes(CellAt(row, i))
            /\ call.out.address = SpacedCells(row, 2, i - 1)
       ELSE /\ call.out.approved_date = NoOut
            /\ call.out.address = SpacedCells(row, 2, 5)

C21_Witness ==
  /\ call.fn = "extract_case_row" /\ call.out.kind = "record"
  /\ Len(call.arg) = 5
  /\ AnchorsOf(call.arg) = {4}
  /\ call.out.address = <<"A", " ", "5", "0", "%">>

\* C22: for every row that is a record the total-bonus percentage is the
\* number denoted by the 4th cell from the end when the row has at least 4
\* cells, and no value when it is shorter.
C22_TotalBonusIsFourthFromLast ==
  (call.fn = "extract_case_row" /\ call.out.kind = "record") =>
    call.out.total_bonus_pct =
      IF Len(call.arg) >= 4
      THEN DenotedNumber(CellAt(call.arg, Len(call.arg) - 4))
      ELSE NoNum

C22_Witness ==
  /\ call.fn = "extract_case_row" /\ call.out.kind = "record"
  /\ Len(call.arg) = 5
  /\ call.arg[2] = <<"5", "0", "%">>
  /\ call.arg[5] = <<"1", "2">>
  /\ call.out.total_bonus_pct =
       [kind |-> "Decimal", neg |-> FALSE, digits |-> 50, exp |-> 0]

\* C30: whenever a record carries a total-bonus value, the row has a date
\* anchor and the cell the value was read from lies after it.
C30_TotalBonusCellIsAfterAnchor ==
  (call.fn = "extract_case_row" /\ call.out.kind = "record"
     /\ call.out.total_bonus_pct # NoNum) =>
    /\ AnchorsOf(call.arg) # {}
    /\ \A a \in AnchorsOf(call.arg) :
         (\A b \in AnchorsOf(call.arg) : a <= b) => Len(call.arg) - 4 > a

\* Positions of the children of el that carry the tag.
TagAt(el, tag) == {i \in 1..Len(el.kids) : el.kids[i].tag = tag}

\* Positions of the non-blank items of a wrapper.
ItemsAt(w) ==
  {i \in TagAt(w, "addr") : clean_ws(w.kids[i].text) # <<>>}

\* C23: the scalar field is the cleaned text of the first child with its
\* tag, empty when there is none; the repeated list has one entry for each
\* non-blank item of the wrapper, the i-th entry being the cleaned text of
\* the i-th such item in document order.
C23_FirstChildAndAllItems ==
  /\ call.fn = "_txt(_child)" =>
       LET at == TagAt(call.arg, "key") IN
       IF at = {} THEN call.out = <<>>
       ELSE \E i \in at :
              /\ \A j \in at : i <= j
              /\ call.out = clean_ws(call.arg.kids[i].text)
  /\ call.fn = "collect" =>
       LET ws == TagAt(call.arg, "loc") IN
       IF ws = {} THEN call.out = <<>>
       ELSE \E v \in ws :
              /\ \A j \in ws : v <= j
              /\ LET w == call.arg.kids[v] IN
                   /\ Len(call.out) = Cardinality(ItemsAt(w))
                   /\ \A i \in ItemsAt(w) :
                        call.out[Cardinality({h \in ItemsAt(w) : h <= i})]
                          = clean_ws(w.kids[i].text)

C23_Witness ==
  /\ call.fn = "collect"
  /\ Len(call.arg.kids) = 2
  /\ call.arg.kids[1].tag = "loc" /\ call.arg.kids[2].tag = "loc"
  /\ Len(call.arg.kids[1].kids) = 2
  /\ call.arg.kids[1].kids[1].text = <<" ", "b", " ">>
  /\ call.arg.kids[1].kids[2].text = <<"a">>
  /\ call.arg.kids[2].kids = <<>>
  /\ call.out = <<<<"b">>, <<"a">>>>

C25_FallbackOnlyWhenAllowed ==
  [][\A r \in matcher'.matches \ matcher.matches :
       /\ \/ r.match_type = "exact" /\ r.rule_ok
          \/ r.match_type = "multi_parcel" /\ ~r.rule_ok
       /\ r.match_type = "multi_parcel" =>
            /\ matcher.opts.use_address
            /\ ~\E q \in matcher'.matches :
                  q.wre = r.wre /\ q.match_type = "exact"
            /\ Len(strip(matcher.approvals[r.wre].address)) >= 6]_vars

C25_Witness ==
  /\ matcher.pc = "done"
  /\ \E r, q \in matcher.matches :
       /\ r.match_type = "exact" /\ r.rule_ok
       /\ q.match_type = "multi_parcel" /\ ~q.rule_ok
       /\ q.wre # r.wre

\* The tables a live upsert run over the file f leaves when it runs alone,
\* from record i on the tables st.
RECURSIVE RunAlone(_, _, _, _)
RunAlone(imp, st, f, i) ==
  IF i > Len(f) THEN st
  ELSE LET r == Turn(imp, st, f[i], TRUE)
       IN IF r.pc = "aborted" THEN st ELSE RunAlone(imp, r.st, f, i + 1)

KeysOf(f) == {f[i].key : i \in 1..Len(f)} \ {NoKey}

BothEnded == runs.pc = "racing" /\ \A p \in {1, 2} : runs.at[p] # "loop"

\* C26: when two upsert runs over files with disjoint natural keys have
\* both ended, however their transactions were interleaved, the tables are
\* those that the two runs leave one after the other, in either order.
C26_DisjointRunsCommute ==
  (BothEnded /\ KeysOf(runs.file[1]) \cap KeysOf(runs.file[2]) = {})
    => /\ committed = RunAlone(importer,
                         RunAlone(importer, EmptyStore, runs.file[1], 1),
                         runs.file[2], 1)
       /\ committed = RunAlone(importer,
                         RunAlone(importer, EmptyStore, runs.file[2], 1),
                         runs.file[1], 1)

C26_Witness ==
  /\ BothEnded
  /\ KeysOf(runs.file[1]) = {"A"}
  /\ KeysOf(runs.file[2]) = {"B"}
  /\ runs.order = <<2, 1, 2, 1>>
  /\ committed.child["A"] # <<>>
  /\ committed.child["B"] # <<>>

\* C28: when a run of an XML importer has written its summary, processed
\* is created + updated + skipped.
C28_CountersAddUp ==
  (pc = "done" /\ importer \in XmlImporters)
    => stats.processed = stats.created + stats.updated + stats.skipped

\* C29: for a descriptor <name> duan <digits> xiao duan <digits>, the
\* parcel that parse_land_text and parse_parcel return is the number after
\* the sub-section (zero-padded by parse_land_text), not the digits of the
\* sub-section.
C29_ParcelFollowsArabicSubsection ==
  call.fn \in {"parse_land_text", "parse_parcel"} =>
    \A n \in LandNames, u \in ArabicNumerals, p \in ParcelDigits :
      call.arg = n \o <<"duan">> \o u \o <<"xiao", "duan">> \o p
        => call.out.parcel = IF call.fn = "parse_land_text"
                             THEN Decomposed(n, u, p).parcel
                             ELSE p

\* C27: when the spreadsheet import writes a row of a case that is stored
\* already, the bonus rows of the case are afterwards the bonuses of that
\* row: each code has the number of its cell, and a code whose cell gives
\* no number has no row.
C27_BonusesAreTheNewRows ==
  [][\A k \in CaseNos :
       (/\ xlsx.pc = "loop" /\ xlsx'.pc = "loop" /\ xlsx'.idx = xlsx.idx + 1
        /\ ~xlsx.opts.dry_run
        /\ xlsx.cases[k].present
        /\ case_no_of(xlsx.rows[xlsx'.idx].case_seq) = k)
         => \A c \in BonusCodes :
              xlsx'.cases[k].bonus[c]
                = DenotedNumber(xlsx.rows[xlsx'.idx][c].s)]_vars

Next ==
  \/ Invoke
  \/ Reinvoke
  \/ Exit
  \/ XmlBegin
  \/ ShowKeys
  \/ Summary
  \/ XmlLimit
  \/ XmlSkip
  \/ XmlDateError
  \/ XmlDryRun
  \/ XmlParent
  \/ XmlChildren
  \/ TabBegin
  \/ CsvRow
  \/ RawRow

Spec == Init /\ [][Next]_vars
====
